---- MODULE Spec2Model ----
(***************************************************************************)
(* Model of the F5 XC security-event export client.                        *)
(*                                                                         *)
(*  - XC.get_security_events (src/XC.py): the recursive scroll walk of one *)
(*    virtual hostname, one invocation per page, with an explicit stack of *)
(*    suspended invocations;                                               *)
(*  - the hostname loop and the event partitioner of main (src/main.py);   *)
(*  - the two resolvers XC.get_all_loadbalancers and                       *)
(*    XC.get_virtual_hostname (src/XC.py), under SpecResolver.             *)
(*                                                                         *)
(* The server is the environment: every response is a nondeterministic     *)
(* choice (a failure, or a page with total_hits, events and a scroll_id).  *)
(***************************************************************************)
EXTENDS Integers, Sequences, FiniteSets, TLC

VARIABLES
  limit_events,      \* XC._limit_events (0 = no limit)
  server_hits,       \* the server's hit count for the query
  vh_name,           \* the resolved hostnames, in resolution order
  pc,                \* position of the run: loop / call / return / done
  vhi,               \* index in vh_name of the hostname being walked
  obj_events,        \* main: the result stored for each hostname walked so far
  obj_events_saved,  \* main: the per-event-type buckets
  frames,            \* obj of each suspended invocation, outermost first
  scroll_id,         \* the scroll_id argument of the running invocation
  ret,               \* the value returned by the invocation that just ended
  served,            \* server: events served so far in the current walk
  pattern,           \* server: the event-type pattern of the current hostname
  reqs,              \* history: requests issued in the current walk
  resps,             \* history: responses received in the current walk
  errors,            \* history: 'Error Exception' messages printed, per hostname
  lb_filter,         \* XC._loadbalancer_name
  lb_response,       \* server: the response to GET http_loadbalancers
  lbs,               \* the result of get_all_loadbalancers
  agg_response,      \* server: the response to POST events/aggregation
  vh_result,         \* the result of get_virtual_hostname
  rpc,               \* position of the resolver run
  progress,          \* history: the progress reports printed in the current walk
  output,            \* main: "file" once the output file is written, else "none"
  exit_status,       \* main: the exit status of the process, -1 while it runs
  verbose,           \* the script's VERBOSE flag
  number,            \* get_string_number: the argument
  formatted          \* get_string_number: the result

walkVars == <<limit_events, server_hits, vh_name, pc, vhi, obj_events,
              obj_events_saved, frames, scroll_id, ret, served, pattern,
              reqs, resps, errors>>
resolverVars == <<lb_filter, lb_response, lbs, agg_response, vh_result, rpc>>
endVars == <<output, exit_status>>
sideVars == <<verbose, number, formatted>>
vars == <<walkVars, resolverVars, progress, endVars, sideVars>>

(***************************************************************************)
(* Bounds and program constants                                            *)
(***************************************************************************)
\* the page size the client requests, and the stride of its bookkeeping
PageSize == 500
\* the largest hit count the server reports
MaxHits == 1200
\* the length of a page the server cuts short
ShortPage == 200

TotalHits == {0, 200, 600, 1000, MaxHits}
Limits == {0, 300, 700}
Hostnames == <<"hostA", "hostB">>
Patterns == {"known", "mixed"}
FailureKinds == {"transport", "decode"}

\* scroll_id values: Python None, the empty string, and server tokens <<h, n>>
None == <<0>>
EmptyScroll == <<>>

Min(a, b) == IF a < b THEN a ELSE b
Max(a, b) == IF a > b THEN a ELSE b
Take(s, n) == SubSeq(s, 1, Min(n, Len(s)))
Last(s) == s[Len(s)]
Front(s) == SubSeq(s, 1, Len(s) - 1)
IsPrefix(s, t) == Len(s) <= Len(t) /\ s = SubSeq(t, 1, Len(s))

(***************************************************************************)
(* Events.  An event is the integer h*100000 + t*10000 + j: the j-th event *)
(* the server serves for hostname number h, of type code t.                *)
(***************************************************************************)
supported_event_types ==
  <<"waf_sec_event", "bot_defense_sec_event", "api_sec_event", "svc_policy_sec_event">>

TypeCode(pat, j) ==
  IF pat = "mixed" /\ j % 7 = 0 THEN 0 ELSE (j % 4) + 1

Event(h, pat, j) == h * 100000 + TypeCode(pat, j) * 10000 + j

\* event['sec_event_type']
sec_event_type(e) ==
  LET t == (e \div 10000) % 10
  IN  IF t = 0 THEN "unknown_sec_event" ELSE supported_event_types[t]

\* the events of a page of n events served after `from` earlier ones
PageEvents(h, pat, from, n) == [i \in 1..n |-> Event(h, pat, from + i)]

(***************************************************************************)
(* XC.get_security_events                                                  *)
(***************************************************************************)
\* the scroll_number argument of the running invocation
scroll_number == Len(frames)

\* requestBody['limit']
RequestLimit ==
  IF limit_events > 0 /\ limit_events < PageSize THEN limit_events ELSE PageSize

\* total_events: the effective target
total_events(total_hits) ==
  IF limit_events = 0 \/ total_hits < limit_events THEN total_hits ELSE limit_events

\* mutant: does not count the pages of this invocation's own scroll step
num_events_stored_prev(obj) == Len(obj) + PageSize * (scroll_number - 1)

\* mutant: counts the page about to be requested as stored
num_events_stored_next(obj) == Len(obj) + PageSize * (scroll_number + 1)

\* num_events_stored, as the walk computes it
num_events_stored(obj) == Len(obj) + PageSize * scroll_number

\* mutant: short-circuits only when the page is empty as well
NoHitsEmptyPage(resp) == resp.total_hits = 0 /\ resp.n = 0

\* the zero-hits test on a response
NoHits(resp) == resp.total_hits = 0

\* mutant: recurses also when the target is reached
ContinueScrollAtTarget(obj, resp) ==
  /\ resp.scroll_id # EmptyScroll
  /\ num_events_stored(obj) <= total_events(resp.total_hits)

\* the test that guards the recursive call
ContinueScroll(obj, resp) ==
  /\ resp.scroll_id # EmptyScroll
  /\ num_events_stored(obj) < total_events(resp.total_hits)

\* mutant: keeps the last limit_events events instead of the first
LimitEventsTail(obj) ==
  IF limit_events > 0 /\ Len(obj) > limit_events
  THEN SubSeq(obj, Len(obj) - limit_events + 1, Len(obj))
  ELSE obj

\* the final truncation of an invocation
LimitEvents(obj) ==
  IF limit_events > 0 /\ Len(obj) > limit_events
  THEN SubSeq(obj, 1, limit_events)
  ELSE obj

\* mutant: obj = obj_tmp
ExtendReplace(obj, obj_tmp) == obj_tmp

\* mutant: the later pages in front of the earlier ones
ExtendFront(obj, obj_tmp) == obj_tmp \o obj

\* obj.extend(obj_tmp)
Extend(obj, obj_tmp) == obj \o obj_tmp

\* mutant: never reports event_limit in place of the count
events_gets_to_uncapped(resp) ==
  IF scroll_id = None THEN resp.n ELSE resp.n + PageSize * scroll_number

\* events_gets_to: the count of events retrieved so far that is reported
events_gets_to(resp) ==
  IF resp.total_hits > PageSize /\ scroll_id # None
  THEN IF limit_events = 0 \/ PageSize * scroll_number + PageSize <= limit_events
       THEN resp.n + PageSize * scroll_number
       ELSE limit_events
  ELSE IF scroll_id = None THEN resp.n ELSE resp.n + PageSize * scroll_number

\* the progress report printed for a response
Report(resp) ==
  [step |-> scroll_number,
   first |-> scroll_id = None,
   page_length |-> resp.n,
   total_hits |-> resp.total_hits,
   events_gets_to |-> events_gets_to(resp),
   total_events |-> total_events(resp.total_hits)]

\* mutant: the invocation's own scroll_id is passed on
NextScrollIdStale(resp) == scroll_id

\* the scroll_id passed to the recursive call
NextScrollId(resp) == resp.scroll_id

\* the request the running invocation sends
Request ==
  [method |-> IF scroll_id = None THEN "POST" ELSE "GET",
   scroll_id |-> scroll_id,
   vh |-> vh_name[vhi],
   limit |-> RequestLimit]

(***************************************************************************)
(* The server                                                              *)
(***************************************************************************)
\* a page holds the rest of the hits up to the requested size, or is cut short
PageLens ==
  {Min(ShortPage, RequestLimit), Min(RequestLimit, Max(server_hits - served, 0))}

NextToken == <<vhi, Len(resps) + 1>>

OkResponses ==
  [kind : {"ok"}, total_hits : {server_hits, 0}, n : PageLens,
   scroll_id : {EmptyScroll, NextToken}]

FailedResponses ==
  [kind : FailureKinds, total_hits : {0}, n : {0}, scroll_id : {EmptyScroll}]

\* a page one of whose events is not valid JSON
EventFailedResponses ==
  [kind : {"event_decode"}, total_hits : {server_hits} \ {0}, n : PageLens \ {0},
   scroll_id : {EmptyScroll}]

\* data['events'], decoded, of an ok response
Page(resp) == PageEvents(vhi, pattern, served, resp.n)

(***************************************************************************)
(* The run                                                                 *)
(***************************************************************************)
EmptyBuckets == [t \in 1..Len(supported_event_types) |-> <<>>]

Init ==
  /\ limit_events \in Limits
  /\ server_hits \in TotalHits
  /\ vh_name \in {<<>>, Hostnames}
  /\ pc = "start"
  /\ vhi = 1
  /\ obj_events = <<>>
  /\ obj_events_saved = EmptyBuckets
  /\ frames = <<>>
  /\ scroll_id = None
  /\ ret = <<>>
  /\ served = 0
  /\ pattern = "known"
  /\ reqs = <<>>
  /\ resps = <<>>
  /\ errors = <<>>
  /\ lb_filter = "all"
  /\ lb_response = [kind |-> "ok", items |-> <<>>]
  /\ lbs \in {<<>>, <<[name |-> <<"a", "p", "p">>, uid |-> 1]>>}
  /\ agg_response = [kind |-> "ok", buckets |-> <<>>]
  /\ vh_result = <<>>
  /\ rpc = "idle"
  /\ progress = <<>>
  /\ output = "none"
  /\ exit_status = -1
  /\ verbose = FALSE
  /\ number = 0
  /\ formatted = <<0, "">>

\* mutant: obj_events = {vh: <result>}
StoreLatest(results, result) == <<result>>

\* main: obj_events[vh] = <result>
StoreResult(results, result) == Append(results, result)

\* main: the two resolver results are checked, exit(1) when one is empty
MainResolve ==
  /\ pc = "start"
  /\ IF Len(lbs) = 0 \/ Len(vh_name) = 0
     THEN pc' = "exit" /\ exit_status' = 1
     ELSE pc' = "loop" /\ exit_status' = exit_status
  /\ UNCHANGED <<limit_events, server_hits, vh_name, vhi, obj_events,
                 obj_events_saved, frames, scroll_id, ret, served, pattern,
                 reqs, resps, errors, progress, resolverVars, output, sideVars>>

\* main: obj_events[vh] = getSecEvents(vh, 0), the call
MainCall ==
  /\ pc = "loop"
  /\ vhi <= Len(vh_name)
  /\ pc' = "call"
  /\ frames' = <<>>
  /\ scroll_id' = None
  /\ ret' = <<>>
  /\ served' = 0
  /\ pattern' \in Patterns
  /\ reqs' = <<>>
  /\ resps' = <<>>
  /\ progress' = <<>>
  /\ errors' = Append(errors, 0)
  /\ UNCHANGED <<limit_events, server_hits, vh_name, vhi, obj_events,
                 obj_events_saved, resolverVars, endVars, sideVars>>

\* the request fails, or the response does not decode: except -> return []
PageFailed ==
  /\ pc = "call"
  /\ \E resp \in FailedResponses :
       /\ reqs' = Append(reqs, Request)
       /\ resps' = Append(resps, resp)
  /\ errors' = [errors EXCEPT ![vhi] = @ + 1]
  /\ ret' = <<>>
  /\ pc' = "return"
  /\ UNCHANGED <<limit_events, server_hits, vh_name, vhi, obj_events,
                 obj_events_saved, frames, scroll_id, served, pattern,
                 progress, resolverVars, endVars, sideVars>>

\* json.loads(event) fails after the progress report: except -> return []
PageEventFailed ==
  /\ pc = "call"
  /\ \E resp \in EventFailedResponses :
       /\ reqs' = Append(reqs, Request)
       /\ resps' = Append(resps, resp)
       /\ served' = served + resp.n
       /\ progress' = Append(progress, Report(resp))
  /\ errors' = [errors EXCEPT ![vhi] = @ + 1]
  /\ ret' = <<>>
  /\ pc' = "return"
  /\ UNCHANGED <<limit_events, server_hits, vh_name, vhi, obj_events,
                 obj_events_saved, frames, scroll_id, pattern,
                 resolverVars, endVars, sideVars>>

\* total_hits == 0: "No events found", return []
PageNoHits ==
  /\ pc = "call"
  /\ \E resp \in OkResponses :
       /\ NoHits(resp)
       /\ reqs' = Append(reqs, Request)
       /\ resps' = Append(resps, resp)
       /\ served' = served + resp.n
  /\ ret' = <<>>
  /\ pc' = "return"
  /\ UNCHANGED <<limit_events, server_hits, vh_name, vhi, obj_events,
                 obj_events_saved, frames, scroll_id, pattern, errors,
                 progress, resolverVars, endVars, sideVars>>

\* the page is appended to obj and the walk recurses with the new scroll_id
PageRecurse ==
  /\ pc = "call"
  /\ \E resp \in OkResponses :
       /\ ~NoHits(resp)
       /\ ContinueScroll(Page(resp), resp)
       /\ reqs' = Append(reqs, Request)
       /\ resps' = Append(resps, resp)
       /\ served' = served + resp.n
       /\ progress' = Append(progress, Report(resp))
       /\ frames' = Append(frames, Page(resp))
       /\ scroll_id' = NextScrollId(resp)
  /\ pc' = "call"
  /\ UNCHANGED <<limit_events, server_hits, vh_name, vhi, obj_events,
                 obj_events_saved, ret, pattern, errors, resolverVars, endVars, sideVars>>

\* the page is appended to obj and the invocation returns without recursing
PageLast ==
  /\ pc = "call"
  /\ \E resp \in OkResponses :
       /\ ~NoHits(resp)
       /\ ~ContinueScroll(Page(resp), resp)
       /\ reqs' = Append(reqs, Request)
       /\ resps' = Append(resps, resp)
       /\ served' = served + resp.n
       /\ progress' = Append(progress, Report(resp))
       /\ ret' = LimitEvents(Page(resp))
  /\ pc' = "return"
  /\ UNCHANGED <<limit_events, server_hits, vh_name, vhi, obj_events,
                 obj_events_saved, frames, scroll_id, pattern, errors,
                 resolverVars, endVars, sideVars>>

\* the recursive call returns: obj.extend(obj_tmp), truncation, return
Resume ==
  /\ pc = "return"
  /\ frames # <<>>
  /\ ret' = LimitEvents(Extend(Last(frames), ret))
  /\ frames' = Front(frames)
  /\ UNCHANGED <<limit_events, server_hits, vh_name, pc, vhi, obj_events,
                 obj_events_saved, scroll_id, served, pattern, reqs, resps,
                 errors, progress, resolverVars, endVars, sideVars>>

\* main: obj_events[vh] = <the walk's result>, next hostname
MainStore ==
  /\ pc = "return"
  /\ frames = <<>>
  /\ obj_events' = StoreResult(obj_events, ret)
  /\ vhi' = vhi + 1
  /\ pc' = "loop"
  /\ UNCHANGED <<limit_events, server_hits, vh_name, obj_events_saved, frames,
                 scroll_id, ret, served, pattern, reqs, resps, errors,
                 progress, resolverVars, endVars, sideVars>>

\* mutant: continue instead of break
BucketedSkipUnknown(events) ==
  SelectSeq(events, LAMBDA e : sec_event_type(e) # "unknown_sec_event")

\* main: the events of one hostname that are bucketed (up to the break)
Bucketed(events) ==
  LET bad == {i \in 1..Len(events) : sec_event_type(events[i]) = "unknown_sec_event"}
  IN  IF bad = {} THEN events
      ELSE SubSeq(events, 1, (CHOOSE i \in bad : \A k \in bad : i <= k) - 1)

\* main: the flat sequence of bucketed events, hostname by hostname
RECURSIVE Merge(_)
Merge(results) ==
  IF results = <<>> THEN <<>>
  ELSE Merge(Front(results)) \o Bucketed(Last(results))

\* main: the partition loop over obj_events
Partition(results) ==
  LET merged == Merge(results)
  IN  [t \in 1..Len(supported_event_types) |->
         SelectSeq(merged, LAMBDA e : sec_event_type(e) = supported_event_types[t])]

\* main: exit(1) when obj_events has no entry, else the partition loop
MainPartition ==
  /\ pc = "loop"
  /\ vhi > Len(vh_name)
  /\ IF Len(obj_events) = 0
     THEN /\ pc' = "exit"
          /\ exit_status' = 1
          /\ obj_events_saved' = obj_events_saved
     ELSE /\ pc' = "done"
          /\ exit_status' = exit_status
          /\ obj_events_saved' = Partition(obj_events)
  /\ UNCHANGED <<limit_events, server_hits, vh_name, vhi, obj_events, frames,
                 scroll_id, ret, served, pattern, reqs, resps, errors,
                 progress, resolverVars, output, sideVars>>

\* main: saveToJSON / saveToExcel, which may fail, and the normal end
MainSave ==
  /\ pc = "done"
  /\ output' \in {"file", "none"}
  /\ exit_status' = 0
  /\ pc' = "end"
  /\ UNCHANGED <<limit_events, server_hits, vh_name, vhi, obj_events,
                 obj_events_saved, frames, scroll_id, ret, served, pattern,
                 reqs, resps, errors, progress, resolverVars, sideVars>>

Next ==
  \/ MainResolve
  \/ MainCall
  \/ PageFailed
  \/ PageEventFailed
  \/ PageNoHits
  \/ PageRecurse
  \/ PageLast
  \/ Resume
  \/ MainStore
  \/ MainPartition
  \/ MainSave

Spec == Init /\ [][Next]_vars

\* a run over one hostname
InitOne ==
  /\ limit_events \in Limits
  /\ server_hits \in TotalHits
  /\ vh_name \in {<<>>, <<Hostnames[1]>>}
  /\ pc = "start"
  /\ vhi = 1
  /\ obj_events = <<>>
  /\ obj_events_saved = EmptyBuckets
  /\ frames = <<>>
  /\ scroll_id = None
  /\ ret = <<>>
  /\ served = 0
  /\ pattern = "known"
  /\ reqs = <<>>
  /\ resps = <<>>
  /\ errors = <<>>
  /\ lb_filter = "all"
  /\ lb_response = [kind |-> "ok", items |-> <<>>]
  /\ lbs \in {<<>>, <<[name |-> <<"a", "p", "p">>, uid |-> 1]>>}
  /\ agg_response = [kind |-> "ok", buckets |-> <<>>]
  /\ vh_result = <<>>
  /\ rpc = "idle"
  /\ progress = <<>>
  /\ output = "none"
  /\ exit_status = -1
  /\ verbose = FALSE
  /\ number = 0
  /\ formatted = <<0, "">>

\* every step of the run is taken by the one thread of the program, which
\* does not stop while a statement is left to execute
SpecFair == InitOne /\ [][Next]_vars /\ WF_vars(Next)

(***************************************************************************)
(* The resolvers.  Names and bucket keys are sequences of characters.      *)
(***************************************************************************)
\* the most items the server lists, and the most buckets it aggregates
MaxItems == 2
MaxBuckets == 3

Str_all == <<"a", "l", "l">>
Str_app == <<"a", "p", "p">>
Str_o_app == <<"o", ".">> \o Str_app
Str_web == <<"w", "e", "b">>
Str_foo_ == <<"f", "o", "o", ".">>
Str_redirect_ == <<"r", "e", "d", "i", "r", "e", "c", "t", "-">>

LbNames == {Str_app, Str_o_app, Str_web}
Keys == {Str_redirect_ \o Str_app, Str_foo_ \o Str_app,
         Str_foo_ \o Str_redirect_ \o Str_app, Str_web, Str_app \o <<".">> \o Str_web}

SeqsUpTo(S, n) == UNION {[1..m -> S] : m \in 0..n}

\* XC.__init__: loadbalancer_name or 'all'
InitFilter(loadbalancer_name) ==
  IF loadbalancer_name = <<>> THEN Str_all ELSE loadbalancer_name

\* the exception a failed response raises inside the try block
Raised(kind) ==
  CASE kind = "transport" -> "RequestException"
    [] kind = "decode" -> "ValueError"
    [] kind = "shape" -> "KeyError"
    [] OTHER -> "none"

\* except (RequestException, ValueError, Exception)
ExceptionClasses == {"RequestException", "ValueError", "KeyError"}
Caught(exc) ==
  exc \in {"RequestException", "ValueError"} \/ exc \in ExceptionClasses

\* the server's answers
\* the items of a list response: the names given, each with its own identity
LbItems(names) == [i \in DOMAIN names |-> [name |-> names[i], uid |-> i]]

LbResponses ==
  [kind : {"ok"}, items : {LbItems(names) : names \in SeqsUpTo(LbNames, MaxItems)}]
    \cup [kind : {"transport", "decode", "shape"}, items : {<<>>}]

BucketValues ==
  [has_key : {TRUE}, key : Keys] \cup [has_key : {FALSE}, key : {<<>>}]

AggResponses ==
  [kind : {"ok"}, buckets : SeqsUpTo(BucketValues, MaxBuckets)]
    \cup [kind : {"transport", "decode", "shape"}, buckets : {<<>>}]

\* str.endswith
EndsWith(k, suffix) ==
  /\ Len(suffix) <= Len(k)
  /\ SubSeq(k, Len(k) - Len(suffix) + 1, Len(k)) = suffix

\* mutant: matches the filter as a suffix, as the hostname resolver does
SelectBySuffix(items) ==
  IF lb_filter = Str_all THEN items
  ELSE SelectSeq(items, LAMBDA lb : EndsWith(lb.name, lb_filter))

\* the list get_all_loadbalancers builds from a decoded response
SelectLoadbalancers(items) ==
  IF lb_filter = Str_all THEN items
  ELSE SelectSeq(items, LAMBDA lb : lb.name = lb_filter)

\* sub in k
Contains(k, sub) ==
  \E i \in 1..(Len(k) - Len(sub) + 1) : SubSeq(k, i, i + Len(sub) - 1) = sub

InSeq(x, s) == \E i \in 1..Len(s) : s[i] = x

\* mutant: no redirect exclusion
MatchesSuffixOnly(k, lb, vh) ==
  /\ EndsWith(k, lb.name)
  /\ ~InSeq(k, vh)

\* the condition under which a bucket key is appended for a load balancer
Matches(k, lb, vh) ==
  /\ EndsWith(k, lb.name)
  /\ ~Contains(k, Str_redirect_ \o lb.name)
  /\ ~InSeq(k, vh)

\* for lb in lbs: ... vh_name.append(vh['key'])
RECURSIVE ScanLbs(_, _, _, _)
ScanLbs(vh, k, balancers, j) ==
  IF j > Len(balancers) THEN vh
  ELSE ScanLbs(IF Matches(k, balancers[j], vh) THEN Append(vh, k) ELSE vh,
               k, balancers, j + 1)

\* for vh in buckets: ...; a bucket without 'key' raises KeyError when read
RECURSIVE ScanBuckets(_, _, _, _)
ScanBuckets(vh, buckets, balancers, i) ==
  IF i > Len(buckets) THEN [exc |-> "none", vh_name |-> vh]
  ELSE IF ~buckets[i].has_key /\ balancers # <<>>
       THEN [exc |-> "KeyError", vh_name |-> vh]
       ELSE ScanBuckets(ScanLbs(vh, buckets[i].key, balancers, 1),
                        buckets, balancers, i + 1)

\* the outcome of the try block of get_virtual_hostname
VirtualHostnames(resp, balancers) ==
  IF resp.kind # "ok" THEN [exc |-> Raised(resp.kind), vh_name |-> <<>>]
  ELSE ScanBuckets(<<>>, resp.buckets, balancers, 1)

\* mutant: returns the list built so far
ReturnPartial(partial) == partial

\* what the except clause returns
OnError(partial) == <<>>

InitResolver ==
  /\ lb_filter \in {InitFilter(n) : n \in LbNames \cup {<<>>}}
  /\ lb_response = [kind |-> "ok", items |-> <<>>]
  /\ lbs = <<>>
  /\ agg_response = [kind |-> "ok", buckets |-> <<>>]
  /\ vh_result = <<>>
  /\ rpc = "start"
  /\ limit_events = 0
  /\ server_hits = 0
  /\ vh_name = <<>>
  /\ pc = "idle"
  /\ vhi = 1
  /\ obj_events = <<>>
  /\ obj_events_saved = EmptyBuckets
  /\ frames = <<>>
  /\ scroll_id = None
  /\ ret = <<>>
  /\ served = 0
  /\ pattern = "known"
  /\ reqs = <<>>
  /\ resps = <<>>
  /\ errors = <<>>
  /\ progress = <<>>
  /\ output = "none"
  /\ exit_status = -1
  /\ verbose = FALSE
  /\ number = 0
  /\ formatted = <<0, "">>

\* XC.get_all_loadbalancers
GetAllLoadbalancers ==
  /\ rpc = "start"
  /\ \E resp \in LbResponses :
       /\ lb_response' = resp
       /\ IF resp.kind = "ok"
          THEN lbs' = SelectLoadbalancers(resp.items) /\ rpc' = "lbs"
          ELSE IF Caught(Raised(resp.kind))
               THEN lbs' = OnError(<<>>) /\ rpc' = "lbs"
               ELSE lbs' = lbs /\ rpc' = "crashed"
  /\ UNCHANGED <<lb_filter, agg_response, vh_result, walkVars, progress,
                 endVars, sideVars>>

\* main: no load balancers, exit(1)
ExitNoLbs ==
  /\ rpc = "lbs"
  /\ Len(lbs) = 0
  /\ rpc' = "exit"
  /\ exit_status' = 1
  /\ UNCHANGED <<lb_filter, lb_response, lbs, agg_response, vh_result,
                 walkVars, progress, output, sideVars>>

\* XC.get_virtual_hostname
GetVirtualHostname ==
  /\ rpc = "lbs"
  /\ Len(lbs) # 0
  /\ \E resp \in AggResponses :
       LET out == VirtualHostnames(resp, lbs)
       IN  /\ agg_response' = resp
           /\ IF out.exc = "none"
              THEN vh_result' = out.vh_name /\ rpc' = "vhs"
              ELSE IF Caught(out.exc)
                   THEN vh_result' = OnError(out.vh_name) /\ rpc' = "vhs"
                   ELSE vh_result' = vh_result /\ rpc' = "crashed"
  /\ UNCHANGED <<lb_filter, lb_response, lbs, walkVars, progress, endVars,
                 sideVars>>

\* main: no hostnames, exit(1)
ExitNoVhs ==
  /\ rpc = "vhs"
  /\ Len(vh_result) = 0
  /\ rpc' = "exit"
  /\ exit_status' = 1
  /\ UNCHANGED <<lb_filter, lb_response, lbs, agg_response, vh_result,
                 walkVars, progress, output, sideVars>>

NextResolver ==
  \/ GetAllLoadbalancers
  \/ ExitNoLbs
  \/ GetVirtualHostname
  \/ ExitNoVhs

SpecResolver == InitResolver /\ [][NextResolver]_vars

(***************************************************************************)
(* The script main.py: getSecEvents (the last definition) and the hostname  *)
(* loop of main; limit_events is LIMIT_EVENTS and verbose is VERBOSE        *)
(***************************************************************************)
\* the request of the script: its body carries no 'limit'
ScriptRequest ==
  [method |-> IF scroll_id = None THEN "POST" ELSE "GET",
   scroll_id |-> scroll_id,
   vh |-> vh_name[vhi]]

\* a page holds the rest of the hits up to the service's 500, or is cut short
ScriptPageLens == {ShortPage, Min(PageSize, Max(server_hits - served, 0))}

ScriptOkResponses ==
  [kind : {"ok"}, total_hits : {server_hits}, n : ScriptPageLens,
   scroll_id : {EmptyScroll, NextToken}]

\* the request raises, the body is not JSON, or the status is not 200
ScriptFailedResponses ==
  [kind : FailureKinds \cup {"status"}, total_hits : {0}, n : {0},
   scroll_id : {EmptyScroll}]

\* the test that guards the recursive call of the script
ScriptContinue(obj, resp) ==
  /\ resp.scroll_id # EmptyScroll
  /\ num_events_stored(obj) < limit_events
  /\ limit_events > 0

InitScript ==
  /\ limit_events \in Limits
  /\ server_hits \in TotalHits
  /\ verbose \in BOOLEAN
  /\ vh_name = Hostnames
  /\ pc = "loop"
  /\ vhi = 1
  /\ obj_events = <<>>
  /\ obj_events_saved = EmptyBuckets
  /\ frames = <<>>
  /\ scroll_id = None
  /\ ret = <<>>
  /\ served = 0
  /\ pattern = "known"
  /\ reqs = <<>>
  /\ resps = <<>>
  /\ errors = <<>>
  /\ lb_filter = "all"
  /\ lb_response = [kind |-> "ok", items |-> <<>>]
  /\ lbs = <<[name |-> <<"a", "p", "p">>, uid |-> 1]>>
  /\ agg_response = [kind |-> "ok", buckets |-> <<>>]
  /\ vh_result = <<>>
  /\ rpc = "idle"
  /\ progress = <<>>
  /\ output = "none"
  /\ exit_status = -1
  /\ number = 0
  /\ formatted = <<0, "">>

\* main: obj_events[vh] = getSecEvents(vh, 0)
ScriptMainCall ==
  /\ pc = "loop"
  /\ vhi <= Len(vh_name)
  /\ pc' = "call"
  /\ frames' = <<>>
  /\ scroll_id' = None
  /\ ret' = <<>>
  /\ served' = 0
  /\ reqs' = <<>>
  /\ resps' = <<>>
  /\ errors' = Append(errors, 0)
  /\ UNCHANGED <<limit_events, server_hits, vh_name, vhi, obj_events,
                 obj_events_saved, pattern, progress, resolverVars, endVars,
                 sideVars>>

\* VERBOSE prints requestBody, which is bound only when scroll_id is None:
\* the continuation invocation raises before its try, and the except clause
\* of its caller returns []
ScriptUnbound ==
  /\ pc = "call"
  /\ verbose /\ scroll_id # None
  /\ frames # <<>>
  /\ frames' = Front(frames)
  /\ errors' = [errors EXCEPT ![vhi] = @ + 1]
  /\ ret' = <<>>
  /\ pc' = "return"
  /\ UNCHANGED <<limit_events, server_hits, vh_name, vhi, obj_events,
                 obj_events_saved, scroll_id, served, pattern, reqs, resps,
                 progress, resolverVars, endVars, sideVars>>

\* the request is sent: VERBOSE is off or this is the first invocation
ScriptSends == pc = "call" /\ ~(verbose /\ scroll_id # None)

\* except -> return [], or status_code != 200 -> return []
ScriptPageFailed ==
  /\ ScriptSends
  /\ \E resp \in ScriptFailedResponses :
       /\ reqs' = Append(reqs, ScriptRequest)
       /\ resps' = Append(resps, resp)
  /\ errors' = [errors EXCEPT ![vhi] = @ + 1]
  /\ ret' = <<>>
  /\ pc' = "return"
  /\ UNCHANGED <<limit_events, server_hits, vh_name, vhi, obj_events,
                 obj_events_saved, frames, scroll_id, served, pattern,
                 progress, resolverVars, endVars, sideVars>>

\* the page is appended to obj and the script recurses with the new scroll_id
ScriptPageRecurse ==
  /\ ScriptSends
  /\ \E resp \in ScriptOkResponses :
       /\ ScriptContinue(Page(resp), resp)
       /\ reqs' = Append(reqs, ScriptRequest)
       /\ resps' = Append(resps, resp)
       /\ served' = served + resp.n
       /\ frames' = Append(frames, Page(resp))
       /\ scroll_id' = resp.scroll_id
  /\ pc' = "call"
  /\ UNCHANGED <<limit_events, server_hits, vh_name, vhi, obj_events,
                 obj_events_saved, ret, pattern, errors, progress,
                 resolverVars, endVars, sideVars>>

\* the page is appended to obj and the invocation returns obj
ScriptPageLast ==
  /\ ScriptSends
  /\ \E resp \in ScriptOkResponses :
       /\ ~ScriptContinue(Page(resp), resp)
       /\ reqs' = Append(reqs, ScriptRequest)
       /\ resps' = Append(resps, resp)
       /\ served' = served + resp.n
       /\ ret' = Page(resp)
  /\ pc' = "return"
  /\ UNCHANGED <<limit_events, server_hits, vh_name, vhi, obj_events,
                 obj_events_saved, frames, scroll_id, pattern, errors,
                 progress, resolverVars, endVars, sideVars>>

\* the caller appends the items of obj_tmp to obj and returns obj
ScriptResume ==
  /\ pc = "return"
  /\ frames # <<>>
  /\ ret' = Last(frames) \o ret
  /\ frames' = Front(frames)
  /\ UNCHANGED <<limit_events, server_hits, vh_name, pc, vhi, obj_events,
                 obj_events_saved, scroll_id, served, pattern, reqs, resps,
                 errors, progress, resolverVars, endVars, sideVars>>

\* main: obj_events[vh] = <the result>, next hostname
ScriptMainStore ==
  /\ pc = "return"
  /\ frames = <<>>
  /\ obj_events' = StoreResult(obj_events, ret)
  /\ vhi' = vhi + 1
  /\ pc' = "loop"
  /\ UNCHANGED <<limit_events, server_hits, vh_name, obj_events_saved, frames,
                 scroll_id, ret, served, pattern, reqs, resps, errors,
                 progress, resolverVars, endVars, sideVars>>

NextScript ==
  \/ ScriptMainCall
  \/ ScriptUnbound
  \/ ScriptPageFailed
  \/ ScriptPageRecurse
  \/ ScriptPageLast
  \/ ScriptResume
  \/ ScriptMainStore

SpecScript == InitScript /\ [][NextScript]_vars

(***************************************************************************)
(* utils.get_string_number                                                 *)
(***************************************************************************)
\* f"{n/unit:.1f}" as a count of tenths; the inputs drawn below have no
\* digit 5 followed by zeros only after the first decimal, so no rounding tie
OneDecimal(n, unit) ==
  LET tenth == unit \div 10
      rest == n % unit
  IN  (n \div unit) * 10 + (rest \div tenth)
        + (IF 2 * (rest % tenth) > tenth THEN 1 ELSE 0)

\* the first statement: formatted_number is bound from a billion on only
FirstIf(n) ==
  IF n >= 1000000000
  THEN <<OneDecimal(n, 1000000000), "b">>
  ELSE <<0, "unbound">>

\* the second statement (if / elif / else): each of its branches assigns
\* formatted_number, whatever the first statement left in it
SecondIf(n, formatted_number) ==
  IF n >= 1000000 THEN <<OneDecimal(n, 1000000), "m">>
  ELSE IF n >= 1000 THEN <<OneDecimal(n, 1000), "k">>
  ELSE <<n, "">>

\* the returned string as <<tenths, suffix>>, or <<number, "">> for str(number)
get_string_number(n) == SecondIf(n, FirstIf(n))

\* the numbers formatted: the docstring's examples, the edges of the ranges
\* and multiples in every range
Numbers ==
  {m * u : m \in 0..20, u \in {1, 50, 1000, 70000, 1000000, 100000000}}
    \cup {750, 3500, 2500000, 1500000000, 999, 999999, 999999999}

InitFormat ==
  /\ number \in Numbers
  /\ formatted = <<0, "">>
  /\ pc = "format"
  /\ limit_events = 0
  /\ server_hits = 0
  /\ verbose = FALSE
  /\ vh_name = <<>>
  /\ vhi = 1
  /\ obj_events = <<>>
  /\ obj_events_saved = EmptyBuckets
  /\ frames = <<>>
  /\ scroll_id = None
  /\ ret = <<>>
  /\ served = 0
  /\ pattern = "known"
  /\ reqs = <<>>
  /\ resps = <<>>
  /\ errors = <<>>
  /\ lb_filter = "all"
  /\ lb_response = [kind |-> "ok", items |-> <<>>]
  /\ lbs = <<>>
  /\ agg_response = [kind |-> "ok", buckets |-> <<>>]
  /\ vh_result = <<>>
  /\ rpc = "idle"
  /\ progress = <<>>
  /\ output = "none"
  /\ exit_status = -1

\* formatted_number = get_string_number(number)
GetStringNumber ==
  /\ pc = "format"
  /\ formatted' = get_string_number(number)
  /\ pc' = "formatted"
  /\ UNCHANGED <<limit_events, server_hits, vh_name, vhi, obj_events,
                 obj_events_saved, frames, scroll_id, ret, served, pattern,
                 reqs, resps, errors, progress, resolverVars, endVars,
                 verbose, number>>

NextFormat == GetStringNumber

SpecFormat == InitFormat /\ [][NextFormat]_vars

(***************************************************************************)
(* History of the current walk                                             *)
(***************************************************************************)
\* the top-level invocation of the current walk has returned ret
WalkDone == pc = "return" /\ frames = <<>>

\* the response was received and decoded, and its page was appended to obj
Accepted(k) == resps[k].kind = "ok" /\ resps[k].total_hits # 0

\* the events the server had served before response k
RECURSIVE ServedBefore(_)
ServedBefore(k) == IF k <= 1 THEN 0 ELSE ServedBefore(k - 1) + resps[k - 1].n

\* the concatenation, in fetch order, of the accepted pages among the first k
RECURSIVE Fetched(_)
Fetched(k) ==
  IF k = 0 THEN <<>>
  ELSE Fetched(k - 1) \o
       (IF Accepted(k)
        THEN PageEvents(vhi, pattern, ServedBefore(k), resps[k].n)
        ELSE <<>>)

\* the number of events of the accepted pages
Accumulated == Len(Fetched(Len(resps)))

CeilDiv(a, b) == (a + b - 1) \div b

\* the server reports server_hits on every response and sends full pages
\* with a non-empty scroll_id until the events are exhausted
WellBehaved ==
  \A k \in 1..Len(resps) :
    /\ resps[k].kind = "ok"
    /\ resps[k].total_hits = server_hits
    /\ resps[k].n = Min(PageSize, server_hits - PageSize * (k - 1))
    /\ (PageSize * k < server_hits => resps[k].scroll_id # EmptyScroll)

\* an 'Error Exception' was printed in the current walk
WalkFailed == errors[vhi] > 0

(***************************************************************************)
(* Claims                                                                  *)
(***************************************************************************)

\* C1: with event_limit = 0, against a server that reports a constant
\* total_hits = N >= 1 and sends full pages of 500 events with a non-empty
\* scroll_id until the events are exhausted, the walk makes exactly
\* ceil(N/500) requests, one POST followed by GETs, and returns all N events
\* in retrieval order.
C1_FullPagesWalk ==
  (WalkDone /\ limit_events = 0 /\ server_hits >= 1 /\ WellBehaved) =>
    /\ Len(reqs) = CeilDiv(server_hits, PageSize)
    /\ reqs[1].method = "POST"
    /\ \A k \in 2..Len(reqs) : reqs[k].method = "GET"
    /\ ret = PageEvents(vhi, pattern, 0, server_hits)

C1_Witness ==
  /\ WalkDone /\ limit_events = 0 /\ server_hits = MaxHits /\ WellBehaved
  /\ Len(reqs) = 3
  /\ Len(ret) = MaxHits

\* C2: with event_limit > 0 the walk returns at most event_limit events, and
\* they are the first event_limit events of the concatenation, in retrieval
\* order, of the pages the walk accumulated.
C2_LimitTruncation ==
  (WalkDone /\ limit_events > 0) =>
    /\ Len(ret) <= limit_events
    /\ ret = Take(Fetched(Len(resps)), limit_events)

C2_Witness ==
  /\ WalkDone /\ limit_events = 700 /\ server_hits = MaxHits
  /\ Len(reqs) = 2
  /\ Accumulated = 2 * PageSize
  /\ Len(ret) = 700

C4_AllWalked ==
  /\ Len(obj_events) = vhi - 1
  /\ Len(errors) \in {vhi - 1, vhi}
  /\ pc = "done" =>
       /\ Len(obj_events) = Len(vh_name)
       /\ \A h \in 1..Len(obj_events) :
            LET kept == Bucketed(obj_events[h])
            IN  \A t \in 1..Len(supported_event_types) :
                  SelectSeq(kept, LAMBDA e : sec_event_type(e) = supported_event_types[t])
                    = SelectSeq(obj_events_saved[t], LAMBDA e : e \div 100000 = h)

C4_ResultsKept ==
  \A h \in 1..Len(obj_events) :
    Len(obj_events') >= h /\ obj_events'[h] = obj_events[h]

C4_FailureIsolation == []C4_AllWalked /\ [][C4_ResultsKept]_vars

\* hostA's walk kept a full result, hostB's walk failed at its second page
C4_Witness ==
  /\ pc = "done"
  /\ errors[1] = 0 /\ Len(obj_events[1]) = MaxHits
  /\ errors[2] = 1 /\ Len(obj_events[2]) = PageSize
  /\ Len(obj_events_saved[1]) > PageSize \div 4

\* C5: when a walk ends without error, the last response's scroll_id was
\* empty or the events accumulated reach the effective target.
C5_StopsOnlyWhenSatisfied ==
  (WalkDone /\ ~WalkFailed) =>
    \/ resps[Len(resps)].scroll_id = EmptyScroll
    \/ Accumulated >= total_events(resps[Len(resps)].total_hits)

\* C6: when the first response reports total_hits = 0 the walk makes no
\* further request and returns the empty sequence, without an error.
C6_ZeroHits ==
  (pc \in {"call", "return"} /\ Len(resps) >= 1 /\ resps[1].kind = "ok"
     /\ resps[1].total_hits = 0) =>
    /\ WalkDone
    /\ Len(reqs) = 1
    /\ ret = <<>>
    /\ ~WalkFailed

C6_Witness ==
  /\ WalkDone
  /\ Len(resps) = 1 /\ resps[1].kind = "ok" /\ resps[1].total_hits = 0
  /\ resps[1].n > 0 /\ resps[1].scroll_id # EmptyScroll
  /\ ret = <<>>

\* C7: with event_limit > 0 the buckets of a run hold at most event_limit
\* events in total.
BucketTotal ==
  Len(obj_events_saved[1]) + Len(obj_events_saved[2])
    + Len(obj_events_saved[3]) + Len(obj_events_saved[4])

C7_GlobalLimit ==
  (pc = "done" /\ limit_events > 0) => BucketTotal <= limit_events

(***************************************************************************)
(* Claims about the resolvers (SpecResolver)                               *)
(***************************************************************************)
BucketKeys == [i \in DOMAIN agg_response.buckets |-> agg_response.buckets[i].key]

\* the try block of get_virtual_hostname ran to its return statement
AggSucceeded ==
  /\ rpc = "vhs"
  /\ agg_response.kind = "ok"
  /\ \A i \in DOMAIN agg_response.buckets : agg_response.buckets[i].has_key

FirstIndex(s, x) == CHOOSE i \in 1..Len(s) : s[i] = x /\ \A j \in 1..(i - 1) : s[j] # x

\* C8: get_virtual_hostname returns the bucket keys k for which some load
\* balancer lb has k ending with lb.name and k not containing
\* "redirect-" + lb.name, each once, in the order of their first occurrence
\* in the server's buckets; with the only name "app", "foo.app" is included,
\* "redirect-app" and "foo.redirect-app" are not.
C8_VirtualHostnames ==
  AggSucceeded =>
    /\ {vh_result[i] : i \in DOMAIN vh_result} =
         {k \in {BucketKeys[i] : i \in DOMAIN BucketKeys} :
            \E j \in DOMAIN lbs :
              /\ EndsWith(k, lbs[j].name)
              /\ ~Contains(k, Str_redirect_ \o lbs[j].name)}
    /\ \A i, j \in DOMAIN vh_result : i < j =>
         /\ vh_result[i] # vh_result[j]
         /\ FirstIndex(BucketKeys, vh_result[i]) < FirstIndex(BucketKeys, vh_result[j])
    /\ (\A j \in DOMAIN lbs : lbs[j].name = <<"a", "p", "p">>) =>
         /\ ~InSeq(<<"r", "e", "d", "i", "r", "e", "c", "t", "-", "a", "p", "p">>, vh_result)
         /\ ~InSeq(<<"f", "o", "o", ".", "r", "e", "d", "i", "r", "e", "c", "t", "-",
                     "a", "p", "p">>, vh_result)
         /\ InSeq(<<"f", "o", "o", ".", "a", "p", "p">>, BucketKeys)
              => InSeq(<<"f", "o", "o", ".", "a", "p", "p">>, vh_result)

\* two load balancers match "foo.app"; the redirect keys are left out
C8_Witness ==
  /\ AggSucceeded
  /\ Len(lbs) = 2 /\ lbs[1].name = Str_app /\ lbs[2].name = Str_o_app
  /\ BucketKeys = <<Str_foo_ \o Str_redirect_ \o Str_app, Str_foo_ \o Str_app,
                    Str_redirect_ \o Str_app>>
  /\ vh_result = <<Str_foo_ \o Str_app>>

LbSucceeded == rpc \in {"lbs", "exit", "vhs"} /\ lb_response.kind = "ok"

\* the items of the server's list whose name is the filter
Named == {i \in DOMAIN lb_response.items : lb_response.items[i].name = lb_filter}

\* C9 (as claimed): with the filter "all" every item is returned; otherwise
\* only the items named as the filter, and they are zero or one.
C9_ZeroOrOne ==
  LbSucceeded =>
    /\ lb_filter = Str_all => lbs = lb_response.items
    /\ lb_filter # Str_all =>
         /\ \A i \in DOMAIN lbs : lbs[i].name = lb_filter
         /\ Len(lbs) <= 1

\* C9 (amended): with the filter "all" every item is returned; otherwise
\* exactly the items named as the filter, in the server's order: as many as
\* the server lists under that name, so zero or one when the names of the
\* list are distinct.
C9_FilterByName ==
  LbSucceeded =>
    /\ lb_filter = Str_all => lbs = lb_response.items
    /\ lb_filter # Str_all =>
         /\ \A i \in DOMAIN lbs : lbs[i].name = lb_filter
         /\ {lbs[i].uid : i \in DOMAIN lbs} = Named
         /\ \A i, j \in DOMAIN lbs : i < j => lbs[i].uid < lbs[j].uid
         /\ (\A i, j \in DOMAIN lb_response.items :
               i # j => lb_response.items[i].name # lb_response.items[j].name)
              => Len(lbs) <= 1

C9_Witness ==
  /\ LbSucceeded
  /\ lb_filter = Str_app
  /\ Len(lb_response.items) = 2
  /\ lb_response.items[1].name = Str_web
  /\ lb_response.items[2].name = Str_app
  /\ lbs = <<[name |-> Str_app, uid |-> 2]>>

\* the try block of get_virtual_hostname raised
AggFailed ==
  /\ rpc = "vhs"
  /\ \/ agg_response.kind # "ok"
     \/ \E i \in DOMAIN agg_response.buckets : ~agg_response.buckets[i].has_key

NoEventsRetrieved == \A h \in 1..Len(obj_events) : obj_events[h] = <<>>

\* C11: the run ends early with a non-zero exit status, and writes no output
\* file, when no load balancers resolve, no hostnames resolve, no events are
\* retrieved for any hostname, or all buckets are empty.
C11_EarlyExit ==
  (/\ pc \in {"exit", "end"}
   /\ \/ Len(lbs) = 0
      \/ Len(vh_name) = 0
      \/ NoEventsRetrieved
      \/ BucketTotal = 0) =>
    /\ pc = "exit"
    /\ exit_status = 1
    /\ output = "none"

\* the index of the first unknown-type event of a sequence, Len + 1 if none
FirstUnknown(events) ==
  LET bad == {i \in 1..Len(events) : sec_event_type(events[i]) = "unknown_sec_event"}
  IN  IF bad = {} THEN Len(events) + 1 ELSE CHOOSE i \in bad : \A k \in bad : i <= k

\* the positions of a bucket that hold events of hostname number h
OfHost(b, h) == {i \in 1..Len(b) : b[i] \div 100000 = h}

\* C12: every bucket holds events of its type only, in arrival order
\* (hostname order, then retrieval order) and without repetition; the events
\* of a hostname found in the buckets are exactly those that precede its
\* first unknown-type event, whatever the other hostnames hold.
C12_Partition ==
  pc \in {"done", "end"} =>
    /\ \A t \in 1..Len(supported_event_types) :
         LET b == obj_events_saved[t]
         IN  /\ \A i \in 1..Len(b) : sec_event_type(b[i]) = supported_event_types[t]
             /\ \A i \in 1..(Len(b) - 1) : b[i] < b[i + 1]
    /\ \A h \in 1..Len(obj_events) :
         LET u == FirstUnknown(obj_events[h])
             kept == {obj_events[h][i] : i \in 1..(u - 1)}
         IN  /\ \A t \in 1..Len(supported_event_types) :
                  \A i \in OfHost(obj_events_saved[t], h) :
                    obj_events_saved[t][i] \in kept
             /\ u - 1 =
                  Cardinality(OfHost(obj_events_saved[1], h))
                  + Cardinality(OfHost(obj_events_saved[2], h))
                  + Cardinality(OfHost(obj_events_saved[3], h))
                  + Cardinality(OfHost(obj_events_saved[4], h))

\* hostA's seventh event is of an unknown type; hostB's events are all bucketed
C12_Witness ==
  /\ pc = "done"
  /\ Len(obj_events[1]) = PageSize /\ FirstUnknown(obj_events[1]) = 7
  /\ Len(obj_events[2]) = PageSize /\ FirstUnknown(obj_events[2]) = PageSize + 1
  /\ BucketTotal = 6 + PageSize

(***************************************************************************)
(* Claims about the pagination of XC.get_security_events (Spec)            *)
(***************************************************************************)

\* C14: the call-stack depth of the walk does not grow with the number of
\* pages fetched: every page of a walk is requested at the depth of the
\* first one (no caller invocation of the walk is pending).
C14_BoundedStack == pc = "call" => Len(frames) = 0

\* the number of events appended to obj before request k of the walk
RECURSIVE AccumulatedBefore(_)
AccumulatedBefore(k) ==
  IF k <= 1 THEN 0
  ELSE AccumulatedBefore(k - 1) + (IF Accepted(k - 1) THEN resps[k - 1].n ELSE 0)

\* C16: a scroll continuation is requested only after a response with a
\* non-empty scroll_id, and while the events actually accumulated for the
\* hostname are fewer than the effective target of that response.
C16_ContinuationGuard ==
  \A k \in 2..Len(reqs) :
    /\ resps[k - 1].kind = "ok"
    /\ resps[k - 1].scroll_id # EmptyScroll
    /\ AccumulatedBefore(k) < total_events(resps[k - 1].total_hits)

\* the second page holds 500 events where 200 were left of the quota of 700
C16_Witness ==
  /\ WalkDone /\ limit_events = 700 /\ Len(reqs) = 2
  /\ resps[1].n = PageSize /\ resps[2].n = PageSize
  /\ Accepted(2) /\ Len(ret) = limit_events

\* C17: the first request of a walk is a POST without a cursor; every later
\* request is a GET that carries the scroll_id of the response just before
\* it, which is not empty and was issued for the hostname of the walk.
C17_CursorContinuity ==
  \A k \in 1..Len(reqs) :
    IF k = 1
    THEN reqs[k].method = "POST" /\ reqs[k].scroll_id = None
    ELSE /\ reqs[k].method = "GET"
         /\ reqs[k].vh = reqs[1].vh
         /\ resps[k - 1].scroll_id # EmptyScroll
         /\ reqs[k].scroll_id = resps[k - 1].scroll_id
         /\ Hostnames[reqs[k].scroll_id[1]] = reqs[k].vh

\* the third request of hostB's walk carries the cursor of its second response
C17_Witness ==
  /\ Len(reqs) = 3 /\ reqs[3].vh = "hostB"
  /\ reqs[3].method = "GET" /\ reqs[3].scroll_id = <<2, 2>>
  /\ reqs[2].scroll_id = <<2, 1>>

\* the continuation report that prints event_limit in place of the count
Capped(r) ==
  /\ ~r.first
  /\ r.total_hits > PageSize
  /\ limit_events > 0
  /\ PageSize * (r.step + 1) > limit_events

\* C18 (as stated): every report prints page_length for the first page and
\* page_length + 500 * step for a continuation page.
C18_ProgressFormula ==
  \A i \in 1..Len(progress) :
    LET r == progress[i]
    IN  r.events_gets_to =
          IF r.first THEN r.page_length ELSE r.page_length + PageSize * r.step

\* C18: every report prints page_length for the first page and
\* page_length + 500 * step for a continuation page, except for a
\* continuation page with total_hits > 500, event_limit > 0 and
\* 500 * (step + 1) > event_limit, for which it prints event_limit.
C18_ProgressCapped ==
  \A i \in 1..Len(progress) :
    LET r == progress[i]
    IN  r.events_gets_to =
          IF r.first THEN r.page_length
          ELSE IF Capped(r) THEN limit_events
          ELSE r.page_length + PageSize * r.step

\* step 1 of a walk with event_limit = 700: 700 is printed, not 500 + 500
C18_Witness ==
  /\ limit_events = 700 /\ Len(progress) = 2
  /\ progress[1].first /\ progress[1].events_gets_to = PageSize
  /\ Capped(progress[2]) /\ progress[2].page_length = PageSize
  /\ progress[2].events_gets_to = 700

\* C19: in every report, the count of events retrieved so far is at most the
\* effective target that is printed with it.
C19_ReportWithinTarget ==
  \A i \in 1..Len(progress) :
    progress[i].total_hits >= 1 =>
      progress[i].events_gets_to <= progress[i].total_events

\* the concatenation, in fetch order, of the pages among the first k that
\* were received and decoded without error
RECURSIVE Decoded(_)
Decoded(k) ==
  IF k = 0 THEN <<>>
  ELSE Decoded(k - 1) \o
       (IF resps[k].kind = "ok"
        THEN PageEvents(vhi, pattern, ServedBefore(k), resps[k].n)
        ELSE <<>>)

\* C20: whatever the outcome of the walk, the sequence it returns is a prefix
\* of the concatenation, in fetch order, of the pages of the hostname that
\* were received and decoded without error.
C20_PrefixOfPages == WalkDone => IsPrefix(ret, Decoded(Len(resps)))

\* the third response reports total_hits = 0: the first two pages are returned
C20_Witness ==
  /\ WalkDone /\ Len(resps) = 3
  /\ resps[3].kind = "ok" /\ resps[3].total_hits = 0 /\ resps[3].n > 0
  /\ Len(ret) = 2 * PageSize
  /\ ret = Decoded(2)

(***************************************************************************)
(* Claims about the script and about get_string_number                      *)
(***************************************************************************)

\* C13: with LIMIT_EVENTS = 0 and VERBOSE off, against a server that reports
\* total_hits = N and sends full pages with a non-empty scroll_id until the
\* events are exhausted, a walk of the script's getSecEvents that ends
\* without error returns all N events of the hostname.
C13_NoLimitWalksAll ==
  (WalkDone /\ limit_events = 0 /\ ~verbose /\ WellBehaved /\ ~WalkFailed) =>
    ret = PageEvents(vhi, pattern, 0, server_hits)

\* the string the claim describes, as <<tenths, suffix>>
BySuffix(n) ==
  IF n >= 1000000000 THEN <<OneDecimal(n, 1000000000), "b">>
  ELSE IF n >= 1000000 THEN <<OneDecimal(n, 1000000), "m">>
  ELSE IF n >= 1000 THEN <<OneDecimal(n, 1000), "k">>
  ELSE <<n, "">>

\* C15: for every non-negative number, get_string_number returns the number
\* divided by 1e9 with "b" from 1,000,000,000, by 1e6 with "m" from
\* 1,000,000, by 1e3 with "k" from 1,000, and the plain number below 1,000.
C15_SuffixByMagnitude == pc = "formatted" => formatted = BySuffix(number)

(***************************************************************************)
(* Termination of the walk of XC.get_security_events                       *)
(***************************************************************************)
\* every response decoded so far reports the same total_hits
ConstantHits ==
  \A k \in 1..Len(resps) : resps[k].kind = "ok" => resps[k].total_hits = server_hits

\* ceil(effective target / 500) + 1
RequestBound == CeilDiv(total_events(server_hits), PageSize) + 1

C21_RequestBound == ConstantHits => Len(reqs) <= RequestBound

C21_Returns == pc = "call" ~> WalkDone

\* C21: against a server that reports the same total_hits on every response,
\* a walk issues at most ceil(effective target / 500) + 1 requests, whatever
\* the page lengths and scroll_ids it is sent, and every walk that was
\* started returns.
C21_Terminates == []C21_RequestBound /\ C21_Returns

\* the bound is reached: every response carried a non-empty scroll_id
C21_Witness ==
  /\ WalkDone /\ ConstantHits /\ server_hits >= 1
  /\ Len(reqs) = RequestBound
  /\ \A k \in 1..Len(resps) : resps[k].kind = "ok" /\ resps[k].scroll_id # EmptyScroll

(***************************************************************************)
(* The VERBOSE flag of the script                                           *)
(***************************************************************************)
\* with VERBOSE off, the script's walk sends no request after response k
QuietStops(k) ==
  \/ resps[k].kind # "ok"
  \/ resps[k].scroll_id = EmptyScroll
  \/ ~(resps[k].n + PageSize * (k - 1) < limit_events /\ limit_events > 0)

\* with VERBOSE off, the requests the script's walk sends for the responses
QuietRequests ==
  /\ Len(reqs) = Len(resps)
  /\ \A k \in 1..Len(reqs) :
       /\ reqs[k].method = (IF k = 1 THEN "POST" ELSE "GET")
       /\ reqs[k].scroll_id = (IF k = 1 THEN None ELSE resps[k - 1].scroll_id)

\* C22: whether VERBOSE is on or off, a walk of the script's getSecEvents
\* sends the requests and returns the events of the walk with VERBOSE off:
\* it ends only after a response that ends the quiet walk, and returns the
\* pages of the responses with status 200, in fetch order.
C22_VerboseOnlyLogs ==
  WalkDone =>
    /\ QuietRequests
    /\ QuietStops(Len(resps))
    /\ ret = Decoded(Len(resps))

====
